---------------------------- MODULE Spec2Model ----------------------------
(* Periodic-table card generator: a model of the two programs of the      *)
(* repository.                                                             *)
(*   "flags"    the flag-driven program    (src/main.go)                   *)
(*   "embedded" the program with the embedded element list                 *)
(*              (src/unnamed/part_000)                                     *)
(* A Go string is a sequence of one-character strings, so that trimming,   *)
(* case folding, hex parsing and separator replacement are computed        *)
(* character by character as the code computes them.                       *)
EXTENDS Integers, Sequences, FiniteSets, TLC

VARIABLES
    prog,       \* which program runs: "flags" or "embedded"
    sample,     \* the file "Untitled.png" of the working directory
    source,     \* the "elements" array of the fetched document
    pc,         \* position in main()
    height,     \* the -height flag (flags) or imgHeight (embedded)
    tileW,      \* canvas width
    tileH,      \* canvas height
    colours,    \* the colour table read from the colours file
    fontOk,     \* whether the font faces were loaded
    elements,   \* the element list the loop ranges over
    idx,        \* number of loop iterations begun
    tiles,      \* one record per image allocated in the loop
    files,      \* names (atomic numbers) of the PNG files fully written
    wrote,      \* loop indices whose file was created and encoded
    logged,     \* loop indices for which a failure was logged
    progress,   \* loop indices for which a progress line was printed
    outdir,     \* whether the output directory was created
    exit,       \* exit status, -1 while running
    cause,      \* what ended the run
    inp,        \* input of a pure function under test
    res         \* its result

vars == <<prog, sample, source, pc, height, tileW, tileH, colours, fontOk, elements, idx,
          tiles, files, wrote, logged, progress, outdir, exit, cause, inp, res>>

-----------------------------------------------------------------------------
(* Characters and strings *)

LowerHex == <<"0", "1", "2", "3", "4", "5", "6", "7", "8", "9", "a", "b", "c", "d", "e", "f">>

UpperHex == <<"0", "1", "2", "3", "4", "5", "6", "7", "8", "9", "A", "B", "C", "D", "E", "F">>

\* hexadecimalDigits of fmt's scanner, and the three ranges of hexToByte
IsHexDigit(ch) == \E i \in 1..16 : LowerHex[i] = ch \/ UpperHex[i] = ch

HexVal(ch) == (CHOOSE i \in 1..16 : LowerHex[i] = ch \/ UpperHex[i] = ch) - 1

IsSpace(ch) == ch \in {" ", "\t"}

RECURSIVE TrimLeft(_)
TrimLeft(s) == IF s # <<>> /\ IsSpace(Head(s)) THEN TrimLeft(Tail(s)) ELSE s

RECURSIVE TrimRight(_)
TrimRight(s) ==
    IF s # <<>> /\ IsSpace(s[Len(s)]) THEN TrimRight(SubSeq(s, 1, Len(s) - 1)) ELSE s

\* strings.TrimSpace
TrimSpace(s) == TrimRight(TrimLeft(s))

\* strings.TrimPrefix(s, "#")
TrimPrefixHash(s) == IF s # <<>> /\ Head(s) = "#" THEN Tail(s) ELSE s

\* value of a Go map read m[k]: the zero value "" when the key is absent
MapGet(m, k) == IF k \in DOMAIN m THEN m[k] ELSE <<>>

-----------------------------------------------------------------------------
(* Colours *)

RGBA(r, g, b, a) == [R |-> r, G |-> g, B |-> b, A |-> a]

\* color.RGBA{0, 0, 0, 255}
Black == RGBA(0, 0, 0, 255)

\* color.RGBA{R: 224, G: 224, B: 224, A: 255}
Gray == RGBA(224, 224, 224, 255)

\* One verb %02x of fmt.Sscanf reading into a uint8, from position pos
\* (1-based) of s: at most two runes are consumed, leading spaces among
\* them; at least one hex digit must follow.
ScanHex2(s, pos) ==
    LET lim == IF pos + 2 <= Len(s) + 1 THEN pos + 2 ELSE Len(s) + 1
        p1  == IF pos < lim /\ IsSpace(s[pos])
               THEN (IF pos + 1 < lim /\ IsSpace(s[pos + 1]) THEN pos + 2 ELSE pos + 1)
               ELSE pos
        d1  == p1 < lim /\ IsHexDigit(s[p1])
        d2  == d1 /\ p1 + 1 < lim /\ IsHexDigit(s[p1 + 1])
    IN  IF ~d1 THEN [ok |-> FALSE, val |-> 0, next |-> p1]
        ELSE IF d2 THEN [ok |-> TRUE, val |-> 16 * HexVal(s[p1]) + HexVal(s[p1 + 1]),
                         next |-> p1 + 2]
        ELSE [ok |-> TRUE, val |-> HexVal(s[p1]), next |-> p1 + 1]

\* fmt.Sscanf(h, "%02x%02x%02x", &c.R, &c.G, &c.B) on a zero color.RGBA: the
\* scan stops at the first verb that fails and leaves the later channels 0.
Sscanf3(h) ==
    LET r == ScanHex2(h, 1)
        g == IF r.ok THEN ScanHex2(h, r.next) ELSE [ok |-> FALSE, val |-> 0, next |-> 1]
        b == IF g.ok THEN ScanHex2(h, g.next) ELSE [ok |-> FALSE, val |-> 0, next |-> 1]
    IN  [R |-> r.val, G |-> g.val, B |-> b.val]

\* the 3-digit form expanded by repeating the triple instead of each digit
ExpandShortTriple(h) == IF Len(h) = 3 THEN <<h[1], h[2], h[3], h[1], h[2], h[3]>> ELSE h

\* if len(h) == 3 { h = string([]byte{h[0], h[0], h[1], h[1], h[2], h[2]}) }
ExpandShort(h) == IF Len(h) = 3 THEN <<h[1], h[1], h[2], h[2], h[3], h[3]>> ELSE h

\* hexToRGBA returning the zero color.RGBA{} for a bad length
hexToRGBAZeroValue(s) ==
    LET h == ExpandShort(TrimPrefixHash(TrimSpace(s)))
    IN  IF Len(h) # 6 THEN RGBA(0, 0, 0, 0)
        ELSE LET c == Sscanf3(h) IN RGBA(c.R, c.G, c.B, 255)

hexToRGBA(s) ==
    LET h == ExpandShort(TrimPrefixHash(TrimSpace(s)))
    IN  IF Len(h) # 6 THEN Black
        ELSE LET c == Sscanf3(h) IN RGBA(c.R, c.G, c.B, 255)

\* the closure hexToByte of parseHexColor: the nibble, and whether it set err
hexToByte(b) == IF IsHexDigit(b) THEN [v |-> HexVal(b), bad |-> FALSE]
                ELSE [v |-> 0, bad |-> TRUE]

\* c := color.RGBA{A: 0xff}
parseInit == RGBA(0, 0, 0, 255)

\* parseHexColor: panic is the index-out-of-range of s[0] on the empty
\* string; err is the returned error being non-nil.
parseHexColor(s) ==
    IF Len(s) = 0 THEN [panic |-> TRUE, c |-> parseInit, err |-> FALSE]
    ELSE IF s[1] # "#" THEN [panic |-> FALSE, c |-> parseInit, err |-> TRUE]
    ELSE IF Len(s) = 7 THEN
        LET n == [i \in 2..7 |-> hexToByte(s[i])]
        IN  [panic |-> FALSE,
             c |-> [parseInit EXCEPT !.R = (n[2].v * 16 + n[3].v) % 256,
                                     !.G = (n[4].v * 16 + n[5].v) % 256,
                                     !.B = (n[6].v * 16 + n[7].v) % 256],
             err |-> \E i \in 2..7 : n[i].bad]
    ELSE [panic |-> FALSE, c |-> parseInit, err |-> TRUE]

S_unknown == <<"u", "n", "k", "n", "o", "w", "n">>

S_nonmetal == <<"n", "o", "n", "m", "e", "t", "a", "l">>

\* flags: border := hexToRGBA(colours[e.Type]); black when the key is absent
FlagsBorder(table, key) ==
    LET hexStr == MapGet(table, key)
        border == hexToRGBA(hexStr)
    IN  [panic |-> FALSE, hex |-> hexStr, err |-> FALSE,
         c |-> IF key \in DOMAIN table THEN border ELSE Black]

\* embedded: hexStr, ok := colorMap[el.Category]; "unknown" when absent;
\* gray when parseHexColor returns an error
EmbBgColor(table, key) ==
    LET hexStr == IF key \in DOMAIN table THEN table[key] ELSE MapGet(table, S_unknown)
        p      == parseHexColor(hexStr)
    IN  [panic |-> p.panic, hex |-> hexStr, err |-> p.err,
         c |-> IF p.err THEN Gray ELSE p.c]

-----------------------------------------------------------------------------
(* Category normaliser *)

UpperAlpha == <<"A", "B", "C", "D", "E", "F", "G", "H", "I", "J", "K", "L", "M", "N", "O", "P", "Q", "R", "S", "T", "U", "V", "W", "X", "Y", "Z">>

LowerAlpha == <<"a", "b", "c", "d", "e", "f", "g", "h", "i", "j", "k", "l", "m", "n", "o", "p", "q", "r", "s", "t", "u", "v", "w", "x", "y", "z">>

W_nonmetals == <<"n", "o", "n", "m", "e", "t", "a", "l", "s">>

W_diatomic == <<"d", "i", "a", "t", "o", "m", "i", "c">>

W_polyatomic == <<"p", "o", "l", "y", "a", "t", "o", "m", "i", "c">>

W_noble == <<"n", "o", "b", "l", "e">>

W_gas == <<"g", "a", "s">>

W_gases == <<"g", "a", "s", "e", "s">>

W_alkali == <<"a", "l", "k", "a", "l", "i">>

W_alkaline == <<"a", "l", "k", "a", "l", "i", "n", "e">>

W_earth == <<"e", "a", "r", "t", "h">>

W_metal == <<"m", "e", "t", "a", "l">>

W_metals == <<"m", "e", "t", "a", "l", "s">>

W_transition == <<"t", "r", "a", "n", "s", "i", "t", "i", "o", "n">>

W_post == <<"p", "o", "s", "t">>

W_lanthanide == <<"l", "a", "n", "t", "h", "a", "n", "i", "d", "e">>

W_lanthanides == <<"l", "a", "n", "t", "h", "a", "n", "i", "d", "e", "s">>

W_lanthanoid == <<"l", "a", "n", "t", "h", "a", "n", "o", "i", "d">>

W_lanthanoids == <<"l", "a", "n", "t", "h", "a", "n", "o", "i", "d", "s">>

W_actinide == <<"a", "c", "t", "i", "n", "i", "d", "e">>

W_actinides == <<"a", "c", "t", "i", "n", "i", "d", "e", "s">>

W_actinoid == <<"a", "c", "t", "i", "n", "o", "i", "d">>

W_actinoids == <<"a", "c", "t", "i", "n", "o", "i", "d", "s">>

W_metalloid == <<"m", "e", "t", "a", "l", "l", "o", "i", "d">>

W_metalloids == <<"m", "e", "t", "a", "l", "l", "o", "i", "d", "s">>

W_ghost == <<"g", "h", "o", "s", "t">>

W_category == <<"c", "a", "t", "e", "g", "o", "r", "y">>

ToLowerCh(ch) ==
    IF \E i \in 1..26 : UpperAlpha[i] = ch
    THEN LowerAlpha[CHOOSE i \in 1..26 : UpperAlpha[i] = ch]
    ELSE ch

\* strings.ToLower
ToLower(s) == [i \in 1..Len(s) |-> ToLowerCh(s[i])]

\* strings.ReplaceAll(s, old, new) for one-character old and new
ReplaceAll(s, old, new) == [i \in 1..Len(s) |-> IF s[i] = old THEN new ELSE s[i]]

\* strings.Fields: the maximal runs of non-space characters
RECURSIVE FieldsFrom(_, _, _)
FieldsFrom(s, i, cur) ==
    IF i > Len(s) THEN (IF cur = <<>> THEN <<>> ELSE <<cur>>)
    ELSE IF IsSpace(s[i])
         THEN (IF cur = <<>> THEN <<>> ELSE <<cur>>) \o FieldsFrom(s, i + 1, <<>>)
         ELSE FieldsFrom(s, i + 1, Append(cur, s[i]))

Fields(s) == FieldsFrom(s, 1, <<>>)

\* strings.Join
RECURSIVE Join(_, _)
Join(ws, sep) ==
    IF ws = <<>> THEN <<>>
    ELSE IF Len(ws) = 1 THEN ws[1]
    ELSE ws[1] \o sep \o Join(Tail(ws), sep)

\* a string literal of the source written as its words
Phrase(ws) == Join(ws, <<" ">>)

S_post_transition_metal == W_post \o <<"-">> \o W_transition \o <<" ">> \o W_metal

\* the first four statements of normaliseCategory
Clean(c) ==
    Join(Fields(ReplaceAll(ReplaceAll(ToLower(c), "-", " "), "_", " ")), <<" ">>)

\* the switch of normaliseCategory
Canonical(c) ==
    CASE c \in {Phrase(<<W_diatomic, S_nonmetal>>), Phrase(<<W_polyatomic, S_nonmetal>>)}
            -> S_nonmetal
      [] c \in {Phrase(<<W_noble, W_gas>>), Phrase(<<W_noble, W_gases>>)}
            -> Phrase(<<W_noble, W_gas>>)
      [] c \in {Phrase(<<W_alkali, W_metal>>), Phrase(<<W_alkali, W_metals>>)}
            -> Phrase(<<W_alkali, W_metal>>)
      [] c \in {Phrase(<<W_alkaline, W_earth, W_metal>>), Phrase(<<W_alkaline, W_earth, W_metals>>)}
            -> Phrase(<<W_alkaline, W_earth, W_metal>>)
      [] c \in {Phrase(<<W_transition, W_metal>>), Phrase(<<W_transition, W_metals>>)}
            -> Phrase(<<W_transition, W_metal>>)
      [] c \in {Phrase(<<W_post, W_transition, W_metal>>), Phrase(<<W_post, W_transition, W_metals>>)}
            -> S_post_transition_metal
      [] c \in {W_lanthanide, W_lanthanoid, W_lanthanoids, W_lanthanides}
            -> W_lanthanide
      [] c \in {W_actinide, W_actinoid, W_actinoids, W_actinides}
            -> W_actinide
      [] OTHER -> c

\* the switch applied to the lower-cased string before the separators are
\* replaced and the whitespace is collapsed
normaliseCategoryLookupFirst(c) ==
    IF Canonical(ToLower(c)) # ToLower(c) THEN Canonical(ToLower(c)) ELSE Clean(c)

normaliseCategory(c) == Canonical(Clean(c))

-----------------------------------------------------------------------------
(* Canvas geometry of the flag-driven program.  A positive float64 is     *)
(* kept exactly, as the three base-2^18 limbs of its 53-bit significand   *)
(* scaled by 2^52 (hi * 2^36 + mid * 2^18 + lo), so that the rounding of  *)
(* the division and of the multiplication is computed and not assumed.    *)
(* The limbs stay below 2^31 for heights below 8192.                      *)

\* float64(2456)
RatioNum == 2456

\* float64(1882)
RatioDen == 1882

RECURSIVE Pow2(_)
Pow2(n) == IF n = 0 THEN 1 ELSE 2 * Pow2(n - 1)

\* the limb base
Limb == Pow2(18)

\* hi / 2^16 is the integer part of hi * 2^36 / 2^52
HiUnit == Pow2(16)

\* number of bits of a natural number
RECURSIVE BitLen(_)
BitLen(n) == IF n = 0 THEN 0 ELSE 1 + BitLen(n \div 2)

\* carries propagated upward: lo and mid below 2^18
Norm3(hi, mid, lo) ==
    LET m == mid + lo \div Limb
    IN  [hi |-> hi + m \div Limb, mid |-> m % Limb, lo |-> lo % Limb]

\* round-to-nearest-even to 53 significant bits; sticky tells that bits
\* below lo were dropped
RoundToFloat64(p, sticky) ==
    LET s    == BitLen(p.hi) - 17
        unit == Pow2(s)
        low  == p.lo % unit
        odd  == (p.lo \div unit) % 2 = 1
        up   == \/ 2 * low > unit
                \/ 2 * low = unit /\ (sticky \/ odd)
    IN  IF s <= 0 THEN p
        ELSE Norm3(p.hi, p.mid, p.lo - low + (IF up THEN unit ELSE 0))

\* the float64 quotient num / den for den <= num < 2 * den, by long
\* division in base 2^18; the remainder decides the rounding of the last bit
Float64Div(num, den) ==
    LET q2 == (num * HiUnit) \div den
        r2 == (num * HiUnit) % den
        q1 == (r2 * Limb) \div den
        r1 == (r2 * Limb) % den
        q0 == (r1 * Limb) \div den
        r0 == (r1 * Limb) % den
        up == 2 * r0 > den \/ (2 * r0 = den /\ q0 % 2 = 1)
    IN  Norm3(q2, q1, q0 + (IF up THEN 1 ELSE 0))

\* the float64 product f * float64(h) for a natural number h >= 1
Float64MulNat(f, h) == RoundToFloat64(Norm3(h * f.hi, h * f.mid, h * f.lo), FALSE)

\* int(f) for a float64 f >= 0
Float64ToInt(f) == f.hi \div HiUnit

\* ratio := float64(2456) / float64(1882)
ratio == Float64Div(RatioNum, RatioDen)

\* a / b rounded to the nearest integer, halves away from zero (b > 0)
RoundQuot(a, b) ==
    IF a < 0 THEN -((2 * (-a) + b) \div (2 * b)) ELSE (2 * a + b) \div (2 * b)

\* a / b truncated toward zero (b > 0)
TruncQuot(a, b) == IF a < 0 THEN -((-a) \div b) ELSE a \div b

\* int(math.Round(ratio * float64(tileH))): the width rounded to the nearest
\* integer instead of truncated
TileWidthRounded(h) == RoundQuot(h * RatioNum, RatioDen)

\* tileW := int(ratio * float64(tileH)): the float64 product, truncated
\* toward zero
TileWidth(h) ==
    IF h = 0 THEN 0
    ELSE LET a == IF h < 0 THEN -h ELSE h
             w == Float64ToInt(Float64MulNat(ratio, a))
         IN  IF h < 0 THEN -w ELSE w

\* image.Rect(0, 0, w, h): the corners are swapped into order
Rect(w, h) ==
    [x0 |-> IF w < 0 THEN w ELSE 0, y0 |-> IF h < 0 THEN h ELSE 0,
     x1 |-> IF w < 0 THEN 0 ELSE w, y1 |-> IF h < 0 THEN 0 ELSE h]

\* bt := tileH / 15: border thickness (Go's integer division truncates
\* toward zero)
bt(h) == TruncQuot(h, 15)

\* pad := tileH / 20
pad(h) == TruncQuot(h, 20)

\* imgWidth
imgWidth == 2456

\* imgHeight
imgHeight == 1882

\* fixed.I(n), fixed.P(x, y): an integer pixel coordinate as a 26.6
\* fixed-point number
fixedI(n) == n * Pow2(6)

\* fixed.Int26_6.Round(): to the nearest pixel
fixedRound(f) == (f + Pow2(5)) \div Pow2(6)

\* The four drawText calls of flags with the mass placed like the number,
\* at the left inset, its measured width not subtracted.
FlagsTextsMassLeft(W, H, m) ==
    LET in == bt(H) + pad(H)
    IN  << [x |-> fixedI(in), y |-> fixedI(in + fixedRound(m.numH))],
           [x |-> fixedI(in), y |-> fixedI(in + fixedRound(m.massH))],
           [x |-> fixedI(TruncQuot(W - fixedRound(m.symW), 2)), y |-> fixedI(TruncQuot(H, 2))],
           [x |-> fixedI(TruncQuot(W - fixedRound(m.nameW), 2)),
            y |-> fixedI(TruncQuot(H, 2) + fixedRound(m.nameH) + pad(H))] >>

\* The Dot of the four drawText calls of flags, in the order number, mass,
\* symbol, name. m holds what the font faces measure, in 26.6 units: the
\* line heights numH, massH, nameH and the advances massW, symW, nameW.
FlagsTexts(W, H, m) ==
    LET in == bt(H) + pad(H)
    IN  << [x |-> fixedI(in), y |-> fixedI(in + fixedRound(m.numH))],
           [x |-> fixedI(W - in - fixedRound(m.massW)),
            y |-> fixedI(in + fixedRound(m.massH))],
           [x |-> fixedI(TruncQuot(W - fixedRound(m.symW), 2)), y |-> fixedI(TruncQuot(H, 2))],
           [x |-> fixedI(TruncQuot(W - fixedRound(m.nameW), 2)),
            y |-> fixedI(TruncQuot(H, 2) + fixedRound(m.nameH) + pad(H))] >>

\* drawCenteredText: pt.X -= width / 2, then c.DrawString(text, pt)
drawCenteredText(pt, width) == [x |-> pt.x - TruncQuot(width, 2), y |-> pt.y]

\* int(float64(imgHeight)*0.75 + 20)
yPosName == TruncQuot(imgHeight * 75, 100) + 20

\* int(float64(imgHeight)*0.88 + 20)
yPosMass == TruncQuot(imgHeight * 88, 100) + 20

\* The points of the four texts of embedded, in the order number, mass,
\* symbol, name: the number at a fixed point, the others centred on the
\* vertical midline. m holds the advances massW, symW, nameW in 26.6 units.
EmbTexts(m) ==
    << [x |-> fixedI(20), y |-> fixedI(50)],
       drawCenteredText([x |-> fixedI(imgWidth \div 2), y |-> fixedI(yPosMass)], m.massW),
       drawCenteredText([x |-> fixedI(imgWidth \div 2),
                         y |-> fixedI(imgHeight \div 2 + 30)], m.symW),
       drawCenteredText([x |-> fixedI(imgWidth \div 2), y |-> fixedI(yPosName)], m.nameW) >>

-----------------------------------------------------------------------------
(* The two programs' main() *)

\* most element records in a source document
MaxElems == 2

\* if len(es) > 118 { es = es[:118] }
MaxKept == 118

\* flag.Int("height", 600, ...)
DefaultHeight == 600

Min(a, b) == IF a < b THEN a ELSE b

S_hex_3498db == <<"#", "3", "4", "9", "8", "d", "b">>

S_hex_e0e0e0 == <<"#", "e", "0", "e", "0", "e", "0">>

S_hex_12 == <<"#", "1", "2">>

S_zzzzzz == <<"z", "z", "z", "z", "z", "z">>

S_ghost_category == W_ghost \o <<"-">> \o W_category

S_diatomic_nonmetal == Phrase(<<W_diatomic, S_nonmetal>>)

\* the hex strings a colour table may hold
HexVals == {S_hex_3498db, S_hex_e0e0e0, S_hex_12, <<>>}

TableKeys == {S_diatomic_nonmetal, S_nonmetal, S_unknown}

\* the colour tables a colours file may parse to
Tables == UNION {[K -> HexVals] : K \in SUBSET TableKeys}

\* raw categories of a fetched source document
RawCats == {S_diatomic_nonmetal, S_ghost_category}

SourceElems == [Number : 1..MaxElems, Category : RawCats]

\* the "elements" arrays of the fetched document
Sources == UNION {[1..n -> SourceElems] : n \in 0..MaxElems}

\* the first records of periodicTableJSON
periodicTableJSON ==
    << [Number |-> 1, Category |-> S_diatomic_nonmetal],
       [Number |-> 2, Category |-> Phrase(<<W_noble, W_gas>>)],
       [Number |-> 3, Category |-> Phrase(<<W_alkali, W_metal>>)],
       [Number |-> 4, Category |-> Phrase(<<W_alkaline, W_earth, W_metal>>)],
       [Number |-> 5, Category |-> W_metalloid],
       [Number |-> 6, Category |-> Phrase(<<W_polyatomic, S_nonmetal>>)] >>

EmbeddedElements == SubSeq(periodicTableJSON, 1, Min(MaxElems, Len(periodicTableJSON)))

\* the orders sort.Slice may leave es in: ascending by Number, records of
\* equal Number in any order (sort.Slice is not stable)
SortedByNumber(es) ==
    LET n     == Len(es)
        perms == {f \in [1..n -> 1..n] : \A i, j \in 1..n : i # j => f[i] # f[j]}
    IN  {[i \in 1..n |-> es[f[i]]] : f \in
            {g \in perms : \A i \in 1..n, j \in 1..n :
                              i < j => ~(es[g[j]].Number < es[g[i]].Number)}}

\* fetchElements after the document is read: the lists it may return
fetchElements(src) ==
    LET es == [i \in 1..Len(src) |->
                  [Number |-> src[i].Number, Type |-> normaliseCategory(src[i].Category)]]
    IN  {IF Len(t) > MaxKept THEN SubSeq(t, 1, MaxKept) ELSE t : t \in SortedByNumber(es)}

\* outcomes of saving one tile: the file is created and encoded, os.Create
\* fails, or png.Encode fails on the created file
SaveOutcomes == {"ok", "create", "encode"}

\* no readable file of that name
NoSample == [ok |-> FALSE, w |-> 0, h |-> 0]

\* what the working directory may hold under the name "Untitled.png": no
\* readable file, or an image of some width and height
Samples == {NoSample, [ok |-> TRUE, w |-> imgWidth, h |-> imgHeight],
            [ok |-> TRUE, w |-> 1, h |-> 1]}

InitRun ==
    /\ prog \in {"flags", "embedded"}
    /\ sample \in IF prog = "flags" THEN Samples ELSE {NoSample}
    /\ source = <<>>
    /\ pc = "start"
    /\ height = IF prog = "flags" THEN DefaultHeight ELSE imgHeight
    /\ tileW = IF prog = "flags" THEN 0 ELSE imgWidth
    /\ tileH = IF prog = "flags" THEN 0 ELSE imgHeight
    /\ colours = <<>> /\ fontOk = FALSE /\ elements = <<>> /\ idx = 0
    /\ tiles = <<>> /\ files = {} /\ wrote = {} /\ logged = {} /\ progress = {}
    /\ outdir = FALSE /\ exit = -1 /\ cause = "none"
    /\ inp = <<>> /\ res = <<>>

\* the run ends with the given exit status
Stop(status, why) ==
    /\ pc' = "done" /\ exit' = status /\ cause' = why

(* ---- flags: src/main.go ---- *)

\* os.Open("Untitled.png") with the error printed and main returning, as
\* is done for the colours file, in place of log.Fatal
FlagsOpenSampleReturns ==
    /\ prog = "flags" /\ pc = "start"
    /\ IF ~sample.ok
       THEN /\ Stop(0, "sample")
            /\ UNCHANGED <<tileW, tileH>>
       ELSE /\ pc' = "colours"
            /\ tileH' = height
            /\ tileW' = TileWidth(height)
            /\ UNCHANGED <<exit, cause>>
    /\ UNCHANGED <<prog, sample, source, height, colours, fontOk, elements, idx, tiles,
                   files, wrote, logged, progress, outdir, inp, res>>

\* os.Open("Untitled.png"), log.Fatal on error; then ratio, tileH, tileW:
\* the file is opened and closed, never decoded
FlagsOpenSample ==
    /\ prog = "flags" /\ pc = "start"
    /\ IF ~sample.ok
       THEN /\ Stop(1, "sample")
            /\ UNCHANGED <<tileW, tileH>>
       ELSE /\ pc' = "colours"
            /\ tileH' = height
            /\ tileW' = TileWidth(height)
            /\ UNCHANGED <<exit, cause>>
    /\ UNCHANGED <<prog, sample, source, height, colours, fontOk, elements, idx, tiles, files, wrote,
                   logged, progress, outdir, inp, res>>

\* os.ReadFile(*coloursPath) and json.Unmarshal: on error print and return
FlagsReadColours(T) ==
    /\ prog = "flags" /\ pc = "colours"
    /\ \/ /\ Stop(0, "colours")
          /\ UNCHANGED colours
       \/ /\ pc' = "fonts"
          /\ colours' \in T
          /\ UNCHANGED <<exit, cause>>
    /\ UNCHANGED <<prog, sample, source, height, tileW, tileH, fontOk, elements, idx, tiles, files,
                   wrote, logged, progress, outdir, inp, res>>

\* numFont, _ := loadFont(...) and the three others: the errors are dropped
FlagsLoadFonts ==
    /\ prog = "flags" /\ pc = "fonts"
    /\ pc' = "fetch"
    /\ fontOk' \in BOOLEAN
    /\ UNCHANGED <<prog, sample, source, height, tileW, tileH, colours, elements, idx, tiles, files,
                   wrote, logged, progress, outdir, exit, cause, inp, res>>

\* elements, err := fetchElements(): on error print and return
FlagsFetch(S) ==
    /\ prog = "flags" /\ pc = "fetch"
    /\ \/ /\ Stop(0, "fetch")
          /\ UNCHANGED <<source, elements>>
       \/ /\ pc' = "mkdir"
          /\ \E src \in S : source' = src /\ elements' \in fetchElements(src)
          /\ UNCHANGED <<exit, cause>>
    /\ UNCHANGED <<prog, sample, height, tileW, tileH, colours, fontOk, idx, tiles, files,
                   wrote, logged, progress, outdir, inp, res>>

\* os.MkdirAll(*outdir, 0755): the error is dropped
FlagsMkdir ==
    /\ prog = "flags" /\ pc = "mkdir"
    /\ pc' = "loop"
    /\ outdir' \in BOOLEAN
    /\ UNCHANGED <<prog, sample, source, height, tileW, tileH, colours, fontOk, elements, idx, tiles,
                   files, wrote, logged, progress, exit, cause, inp, res>>

\* One iteration of the loop of flags: the image, the border colour and the
\* borders; numFont.Metrics() on the nil face panics when the font was not
\* loaded; otherwise the texts, then os.Create, png.Encode and f.Close with
\* their errors dropped, and "Written:" printed. M is the set of
\* measurements the font faces may give for the element's texts.
FlagsTile(M) ==
    /\ prog = "flags" /\ pc = "loop" /\ idx < Len(elements)
    /\ LET i == idx + 1
           e == elements[i]
           b == FlagsBorder(colours, e.Type)
           t == [i |-> i, rect |-> Rect(tileW, tileH), key |-> e.Type,
                 hex |-> b.hex, err |-> b.err, c |-> b.c, drawn |-> TRUE,
                 bt |-> bt(tileH), pad |-> pad(tileH)]
       IN  /\ idx' = i
           /\ IF ~fontOk
              THEN /\ tiles' = Append(tiles, t @@ [texts |-> <<>>])
                   /\ Stop(2, "nilfont")
                   /\ UNCHANGED <<files, wrote, progress>>
              ELSE /\ \E m \in M :
                        tiles' = Append(tiles, t @@ [m |-> m,
                                                    texts |-> FlagsTexts(tileW, tileH, m)])
                   /\ \E io \in SaveOutcomes :
                        /\ (io # "create") => outdir
                        /\ files' = CASE io = "ok"     -> files \cup {e.Number}
                                      [] io = "encode" -> files \ {e.Number}
                                      [] OTHER         -> files
                        /\ wrote' = IF io = "ok" THEN wrote \cup {i} ELSE wrote
                   /\ progress' = progress \cup {i}
                   /\ UNCHANGED <<pc, exit, cause>>
    /\ UNCHANGED <<prog, sample, source, height, tileW, tileH, colours, fontOk, elements, logged,
                   outdir, inp, res>>

\* main returns after the last element
FlagsFinish ==
    /\ prog = "flags" /\ pc = "loop" /\ idx = Len(elements)
    /\ Stop(0, "end")
    /\ UNCHANGED <<prog, sample, source, height, tileW, tileH, colours, fontOk, elements, idx, tiles,
                   files, wrote, logged, progress, outdir, inp, res>>

(* ---- embedded: src/unnamed/part_000 ---- *)

\* os.ReadFile(fontPath) and freetype.ParseFont: log.Fatalf on error
EmbLoadFont ==
    /\ prog = "embedded" /\ pc = "start"
    /\ \/ /\ Stop(1, "font")
          /\ UNCHANGED fontOk
       \/ /\ pc' = "colours"
          /\ fontOk' = TRUE
          /\ UNCHANGED <<exit, cause>>
    /\ UNCHANGED <<prog, sample, source, height, tileW, tileH, colours, elements, idx, tiles, files,
                   wrote, logged, progress, outdir, inp, res>>

\* os.ReadFile("colors.json") and json.Unmarshal: log.Fatalf on error
EmbReadColours(T) ==
    /\ prog = "embedded" /\ pc = "colours"
    /\ \/ /\ Stop(1, "colours")
          /\ UNCHANGED colours
       \/ /\ pc' = "unmarshal"
          /\ colours' \in T
          /\ UNCHANGED <<exit, cause>>
    /\ UNCHANGED <<prog, sample, source, height, tileW, tileH, fontOk, elements, idx, tiles, files,
                   wrote, logged, progress, outdir, inp, res>>

\* json.Unmarshal([]byte(periodicTableJSON), &data); elements = data.Elements
EmbUnmarshal ==
    /\ prog = "embedded" /\ pc = "unmarshal"
    /\ pc' = "mkdir"
    /\ elements' = EmbeddedElements
    /\ UNCHANGED <<prog, sample, source, height, tileW, tileH, colours, fontOk, idx, tiles, files,
                   wrote, logged, progress, outdir, exit, cause, inp, res>>

\* os.MkdirAll(outputDir, 0755): log.Fatalf on error
EmbMkdir ==
    /\ prog = "embedded" /\ pc = "mkdir"
    /\ \/ /\ Stop(1, "mkdir")
          /\ UNCHANGED outdir
       \/ /\ pc' = "loop"
          /\ outdir' = TRUE
          /\ UNCHANGED <<exit, cause>>
    /\ UNCHANGED <<prog, sample, source, height, tileW, tileH, colours, fontOk, elements, idx, tiles,
                   files, wrote, logged, progress, inp, res>>

\* One iteration of the loop of embedded: the image, the colour (the read
\* of s[0] in parseHexColor panics on the empty string), the fill and the
\* texts; os.Create failing is logged and the element skipped; png.Encode
\* failing is logged; "Created" is printed in both remaining cases. M is
\* the set of advances the font may give for the element's texts.
EmbTile(M) ==
    /\ prog = "embedded" /\ pc = "loop" /\ idx < Len(elements)
    /\ LET i == idx + 1
           e == elements[i]
           b == EmbBgColor(colours, e.Category)
           t == [i |-> i, rect |-> Rect(tileW, tileH), key |-> e.Category,
                 hex |-> b.hex, err |-> b.err, c |-> b.c, drawn |-> ~b.panic]
       IN  /\ idx' = i
           /\ IF b.panic
              THEN /\ tiles' = Append(tiles, t @@ [texts |-> <<>>])
                   /\ Stop(2, "panic")
                   /\ UNCHANGED <<files, wrote, logged, progress>>
              ELSE /\ \E m \in M :
                        tiles' = Append(tiles, t @@ [m |-> m, texts |-> EmbTexts(m)])
                   /\ \E io \in SaveOutcomes :
                        /\ files' = CASE io = "ok"     -> files \cup {e.Number}
                                      [] io = "encode" -> files \ {e.Number}
                                      [] OTHER         -> files
                        /\ wrote' = IF io = "ok" THEN wrote \cup {i} ELSE wrote
                        /\ logged' = IF io = "ok" THEN logged ELSE logged \cup {i}
                        /\ progress' = IF io = "create" THEN progress ELSE progress \cup {i}
                   /\ UNCHANGED <<pc, exit, cause>>
    /\ UNCHANGED <<prog, sample, source, height, tileW, tileH, colours, fontOk, elements, outdir, inp, res>>

\* main returns after the last element
EmbFinish ==
    /\ prog = "embedded" /\ pc = "loop" /\ idx = Len(elements)
    /\ Stop(0, "end")
    /\ UNCHANGED <<prog, sample, source, height, tileW, tileH, colours, fontOk, elements, idx, tiles,
                   files, wrote, logged, progress, outdir, inp, res>>

\* what the faces of one font measure for one element's texts, in 26.6
\* units
OneFont == {[numH |-> fixedI(60), massH |-> fixedI(60), nameH |-> fixedI(86),
             massW |-> fixedI(200), symW |-> fixedI(150), nameW |-> fixedI(300)]}

Init == InitRun

Next ==
    \/ FlagsOpenSample \/ FlagsReadColours(Tables) \/ FlagsLoadFonts
    \/ FlagsFetch(Sources) \/ FlagsMkdir \/ FlagsTile(OneFont) \/ FlagsFinish
    \/ EmbLoadFont \/ EmbReadColours(Tables) \/ EmbUnmarshal \/ EmbMkdir
    \/ EmbTile(OneFont) \/ EmbFinish

Spec == Init /\ [][Next]_vars

-----------------------------------------------------------------------------
(* The flag-driven program over a range of -height values, with one       *)
(* colour table and one source document.                                  *)

\* largest -height
MaxHeight == 2000

\* the heights run from -NegHeights
NegHeights == 20

\* the colour table of the end-to-end example
ExampleTable == (S_nonmetal :> S_hex_3498db) @@ (S_unknown :> S_hex_e0e0e0)

GeomSources == {[i \in 1..MaxElems |-> [Number |-> i, Category |-> S_diatomic_nonmetal]]}

InitGeom ==
    /\ prog = "flags"
    /\ sample \in Samples
    /\ source = <<>>
    /\ pc = "start"
    /\ height \in (-NegHeights)..MaxHeight
    /\ tileW = 0 /\ tileH = 0
    /\ colours = <<>> /\ fontOk = FALSE /\ elements = <<>> /\ idx = 0
    /\ tiles = <<>> /\ files = {} /\ wrote = {} /\ logged = {} /\ progress = {}
    /\ outdir = FALSE /\ exit = -1 /\ cause = "none"
    /\ inp = <<>> /\ res = <<>>

NextGeom ==
    \/ FlagsOpenSample \/ FlagsReadColours({ExampleTable}) \/ FlagsLoadFonts
    \/ FlagsFetch(GeomSources) \/ FlagsMkdir \/ FlagsTile(OneFont) \/ FlagsFinish

SpecGeom == InitGeom /\ [][NextGeom]_vars

-----------------------------------------------------------------------------
(* Both programs over a range of canvas heights and font measurements,    *)
(* with one colour table and a one-element source document.               *)

\* largest -height of the layout runs
MaxLayoutHeight == 40

\* largest line height a face reports, in pixels
MaxLine == 9

LayoutHeights == (-NegHeights)..MaxLayoutHeight \cup {DefaultHeight}

LayoutSources == {<<[Number |-> 1, Category |-> S_diatomic_nonmetal]>>}

\* line heights a face may report (Metrics().Height), in 26.6 units
LineHeights == {0, fixedI(MaxLine) - 1}

\* advances MeasureString may report, in 26.6 units: nothing, under a
\* pixel, and just under, at and over the canvas width
Advances ==
    {w \in {0, 40, fixedI(tileW) - 33, fixedI(tileW) + 31, fixedI(tileW) + 32} : w >= 0}

LayoutMetrics ==
    [numH : LineHeights, massH : LineHeights, nameH : LineHeights,
     massW : Advances, symW : Advances, nameW : {0, fixedI(tileW) + 32}]

\* measurements in the embedded program: the advances are used unrounded
EmbMetrics ==
    [numH : {fixedI(36)}, massH : {fixedI(28)}, nameH : {fixedI(40)},
     massW : {0, fixedI(100) + 1}, symW : {0, fixedI(100) + 1}, nameW : {0, fixedI(100) + 1}]

InitLayout ==
    /\ prog \in {"flags", "embedded"}
    /\ sample \in IF prog = "flags" THEN Samples ELSE {NoSample}
    /\ source = <<>>
    /\ pc = "start"
    /\ height \in IF prog = "flags" THEN LayoutHeights ELSE {imgHeight}
    /\ tileW = IF prog = "flags" THEN 0 ELSE imgWidth
    /\ tileH = IF prog = "flags" THEN 0 ELSE imgHeight
    /\ colours = <<>> /\ fontOk = FALSE /\ elements = <<>> /\ idx = 0
    /\ tiles = <<>> /\ files = {} /\ wrote = {} /\ logged = {} /\ progress = {}
    /\ outdir = FALSE /\ exit = -1 /\ cause = "none"
    /\ inp = <<>> /\ res = <<>>

NextLayout ==
    \/ FlagsOpenSample \/ FlagsReadColours({ExampleTable}) \/ FlagsLoadFonts
    \/ FlagsFetch(LayoutSources) \/ FlagsMkdir \/ FlagsTile(LayoutMetrics) \/ FlagsFinish
    \/ EmbLoadFont \/ EmbReadColours({ExampleTable}) \/ EmbUnmarshal \/ EmbMkdir
    \/ EmbTile(EmbMetrics) \/ EmbFinish

SpecLayout == InitLayout /\ [][NextLayout]_vars

-----------------------------------------------------------------------------
(* The colour functions on their own: Init draws a hex string and the way *)
(* the table holds it, each action applies one function of the code.      *)

\* longest hex string enumerated over ShortAlphabet
MaxHexLen == 4

ShortAlphabet == {"#", "1", "a", "F", "z", " "}

PairAlphabet == {"3", "F", "z", " "}

Pairs == {<<x, y>> : x \in PairAlphabet, y \in PairAlphabet}

HexInputs ==
    UNION {[1..k -> ShortAlphabet] : k \in 0..MaxHexLen}
    \cup {pre \o p \o q \o r : pre \in {<<>>, <<"#">>}, p \in Pairs, q \in Pairs, r \in Pairs}
    \cup {S_hex_3498db, Tail(S_hex_3498db), S_hex_e0e0e0, S_hex_12, S_zzzzzz}

\* the table of a colour input: the string under the looked-up key, under
\* "unknown" only, or in neither place
Shapes == {"direct", "unknown", "absent"}

ProbeKey == S_nonmetal

TableOf(in) ==
    CASE in.shape = "direct"  -> (ProbeKey :> in.hex)
      [] in.shape = "unknown" -> (S_unknown :> in.hex)
      [] OTHER                -> <<>>

RunIdle ==
    /\ prog = "none" /\ sample = NoSample /\ source = <<>>
    /\ pc = "input" /\ height = 0 /\ tileW = 0 /\ tileH = 0
    /\ colours = <<>> /\ fontOk = FALSE /\ elements = <<>> /\ idx = 0
    /\ tiles = <<>> /\ files = {} /\ wrote = {} /\ logged = {} /\ progress = {}
    /\ outdir = FALSE /\ exit = -1 /\ cause = "none"

InitColour ==
    /\ RunIdle
    /\ inp \in [hex : HexInputs, shape : Shapes]
    /\ res = <<>>

ApplyHexToRGBA ==
    /\ pc = "input"
    /\ pc' = "parsed"
    /\ res' = [fn |-> "hexToRGBA", panic |-> FALSE, err |-> FALSE, c |-> hexToRGBA(inp.hex)]
    /\ UNCHANGED <<prog, sample, source, height, tileW, tileH, colours, fontOk, elements, idx, tiles,
                   files, wrote, logged, progress, outdir, exit, cause, inp>>

ApplyParseHexColor ==
    /\ pc = "input"
    /\ pc' = "parsed"
    /\ res' = [fn |-> "parseHexColor"] @@ parseHexColor(inp.hex)
    /\ UNCHANGED <<prog, sample, source, height, tileW, tileH, colours, fontOk, elements, idx, tiles,
                   files, wrote, logged, progress, outdir, exit, cause, inp>>

ApplyFlagsBorder ==
    /\ pc = "input"
    /\ pc' = "resolved"
    /\ res' = [fn |-> "flags"] @@ FlagsBorder(TableOf(inp), ProbeKey)
    /\ UNCHANGED <<prog, sample, source, height, tileW, tileH, colours, fontOk, elements, idx, tiles,
                   files, wrote, logged, progress, outdir, exit, cause, inp>>

ApplyEmbBgColor ==
    /\ pc = "input"
    /\ pc' = "resolved"
    /\ res' = [fn |-> "embedded"] @@ EmbBgColor(TableOf(inp), ProbeKey)
    /\ UNCHANGED <<prog, sample, source, height, tileW, tileH, colours, fontOk, elements, idx, tiles,
                   files, wrote, logged, progress, outdir, exit, cause, inp>>

NextColour == ApplyHexToRGBA \/ ApplyParseHexColor \/ ApplyFlagsBorder \/ ApplyEmbBgColor

SpecColour == InitColour /\ [][NextColour]_vars

-----------------------------------------------------------------------------
(* The normaliser on its own: Init draws a spelling, the actions apply    *)
(* normaliseCategory once and then once more to its own result.           *)

\* longest string enumerated over NormAlphabet
MaxNormLen == 3

NormAlphabet == {"a", "B", "-", "_", " "}

ToUpperCh(ch) ==
    IF \E i \in 1..26 : LowerAlpha[i] = ch
    THEN UpperAlpha[CHOOSE i \in 1..26 : LowerAlpha[i] = ch]
    ELSE ch

IsLetter(ch) == \E i \in 1..26 : LowerAlpha[i] = ch \/ UpperAlpha[i] = ch

ApplyCase(k, s) ==
    CASE k = "upper" -> [i \in 1..Len(s) |-> ToUpperCh(s[i])]
      [] k = "title" -> [i \in 1..Len(s) |->
                            IF i = 1 \/ ~IsLetter(s[i - 1]) THEN ToUpperCh(s[i]) ELSE s[i]]
      [] OTHER       -> s

Separators == {<<" ">>, <<"-">>, <<"_">>, <<" ", " ">>}

Margins == {<<>>, <<" ">>}

RECURSIVE Spell(_, _)
Spell(tokens, seps) ==
    IF Len(tokens) = 1 THEN tokens[1]
    ELSE tokens[1] \o seps[1] \o Spell(Tail(tokens), Tail(seps))

\* The ten families with their singular and plural spellings ("spelling"),
\* and the further synonyms the switch lists ("synonym").
Spellings ==
    {[family |-> S_nonmetal, kind |-> "spelling", tokens |-> t] :
        t \in {<<S_nonmetal>>, <<W_nonmetals>>}}
    \cup {[family |-> S_nonmetal, kind |-> "synonym", tokens |-> t] :
        t \in {<<W_diatomic, S_nonmetal>>, <<W_polyatomic, S_nonmetal>>}}
    \cup {[family |-> Phrase(<<W_noble, W_gas>>), kind |-> "spelling", tokens |-> t] :
        t \in {<<W_noble, W_gas>>, <<W_noble, W_gases>>}}
    \cup {[family |-> Phrase(<<W_alkali, W_metal>>), kind |-> "spelling", tokens |-> t] :
        t \in {<<W_alkali, W_metal>>, <<W_alkali, W_metals>>}}
    \cup {[family |-> Phrase(<<W_alkaline, W_earth, W_metal>>), kind |-> "spelling", tokens |-> t] :
        t \in {<<W_alkaline, W_earth, W_metal>>, <<W_alkaline, W_earth, W_metals>>}}
    \cup {[family |-> Phrase(<<W_transition, W_metal>>), kind |-> "spelling", tokens |-> t] :
        t \in {<<W_transition, W_metal>>, <<W_transition, W_metals>>}}
    \cup {[family |-> S_post_transition_metal, kind |-> "spelling", tokens |-> t] :
        t \in {<<W_post, W_transition, W_metal>>, <<W_post, W_transition, W_metals>>}}
    \cup {[family |-> W_lanthanide, kind |-> "spelling", tokens |-> t] :
        t \in {<<W_lanthanide>>, <<W_lanthanides>>}}
    \cup {[family |-> W_lanthanide, kind |-> "synonym", tokens |-> t] :
        t \in {<<W_lanthanoid>>, <<W_lanthanoids>>}}
    \cup {[family |-> W_actinide, kind |-> "spelling", tokens |-> t] :
        t \in {<<W_actinide>>, <<W_actinides>>}}
    \cup {[family |-> W_actinide, kind |-> "synonym", tokens |-> t] :
        t \in {<<W_actinoid>>, <<W_actinoids>>}}
    \cup {[family |-> W_metalloid, kind |-> "spelling", tokens |-> t] :
        t \in {<<W_metalloid>>, <<W_metalloids>>}}
    \cup {[family |-> S_unknown, kind |-> "spelling", tokens |-> <<S_unknown>>]}

NormInputs ==
    UNION {{[family |-> sp.family, kind |-> sp.kind,
             text |-> ApplyCase(k, lead \o Spell(sp.tokens, seps) \o trail)] :
                seps \in [1..(Len(sp.tokens) - 1) -> Separators],
                lead \in Margins, trail \in Margins,
                k \in {"lower", "upper", "title"}} : sp \in Spellings}
    \cup {[family |-> <<>>, kind |-> "other", text |-> t] :
            t \in UNION {[1..n -> NormAlphabet] : n \in 0..MaxNormLen}
                  \cup {S_ghost_category, S_post_transition_metal}}

InitNorm ==
    /\ RunIdle
    /\ inp \in NormInputs
    /\ res = <<>>

Normalise ==
    /\ pc = "input"
    /\ pc' = "normalised"
    /\ res' = [out |-> normaliseCategory(inp.text)]
    /\ UNCHANGED <<prog, sample, source, height, tileW, tileH, colours, fontOk, elements, idx, tiles,
                   files, wrote, logged, progress, outdir, exit, cause, inp>>

NormaliseAgain ==
    /\ pc = "normalised"
    /\ pc' = "renormalised"
    /\ res' = [out |-> res.out, again |-> normaliseCategory(res.out)]
    /\ UNCHANGED <<prog, sample, source, height, tileW, tileH, colours, fontOk, elements, idx, tiles,
                   files, wrote, logged, progress, outdir, exit, cause, inp>>

NextNorm == Normalise \/ NormaliseAgain

SpecNorm == InitNorm /\ [][NextNorm]_vars

-----------------------------------------------------------------------------
(* Claims about the colour functions (SpecColour) *)

HasHash(s) == s # <<>> /\ s[1] = "#"

HexDigitsOf(s) == IF HasHash(s) THEN Tail(s) ELSE s

IsHexForm(s, n) ==
    /\ Len(HexDigitsOf(s)) = n
    /\ \A i \in 1..n : IsHexDigit(HexDigitsOf(s)[i])

\* the colour a well-formed hex string denotes: RR, GG, BB of the 6-digit
\* form, and of RRGGBB for the 3-digit form RGB
Denoted(s) ==
    LET d == HexDigitsOf(s)
    IN  IF Len(d) = 6
        THEN RGBA(16 * HexVal(d[1]) + HexVal(d[2]), 16 * HexVal(d[3]) + HexVal(d[4]),
                  16 * HexVal(d[5]) + HexVal(d[6]), 255)
        ELSE RGBA(17 * HexVal(d[1]), 17 * HexVal(d[2]), 17 * HexVal(d[3]), 255)

WellFormedHex(s) == IsHexForm(s, 3) \/ IsHexForm(s, 6)

Parsed == pc = "parsed" /\ ~res.panic

\* C8 as stated: hex parsing (hexToRGBA and parseHexColor alike) accepts the
\* 3-digit and the 6-digit form, each with or without a leading '#', and
\* yields the colour the digits denote.
C8_BothParsersAcceptAllForms ==
    (pc = "parsed" /\ WellFormedHex(inp.hex))
        => (~res.panic /\ ~res.err /\ res.c = Denoted(inp.hex))

\* C8 amended: hexToRGBA accepts the 3-digit and the 6-digit form, each with
\* or without a leading '#', and yields the colour the digits denote (RGB as
\* RRGGBB); parseHexColor yields that colour for '#' followed by 6 digits,
\* and returns an error for every other string it is given.
C8_HexForms ==
    /\ (Parsed /\ res.fn = "hexToRGBA" /\ WellFormedHex(inp.hex))
          => res.c = Denoted(inp.hex)
    /\ (Parsed /\ res.fn = "parseHexColor")
          => IF HasHash(inp.hex) /\ IsHexForm(inp.hex, 6)
             THEN ~res.err /\ res.c = Denoted(inp.hex)
             ELSE res.err

C8_Witness ==
    /\ Parsed /\ res.fn = "hexToRGBA"
    /\ inp.hex = <<"#", "1", "a", "F">>
    /\ res.c = RGBA(17, 170, 255, 255)

\* C9: every colour that colour resolution or hex parsing yields is fully
\* opaque with channels in 0..255, and when parseHexColor reports an error
\* the colour handed on is the gray default, not the value returned beside
\* the error.
C9_Opaque ==
    (pc \in {"parsed", "resolved"} /\ ~res.panic)
        => /\ res.c.A = 255
           /\ res.c.R \in 0..255 /\ res.c.G \in 0..255 /\ res.c.B \in 0..255
           /\ (pc = "resolved" /\ res.err) => res.c = Gray

C9_Witness ==
    /\ pc = "resolved" /\ res.fn = "flags" /\ inp.shape = "direct"
    /\ inp.hex = S_hex_12 /\ res.c.A = 255

-----------------------------------------------------------------------------
(* Claims about the normaliser (SpecNorm) *)

\* C6: every singular, plural, hyphenated, underscored, upper- or mixed-case
\* and extra-whitespace spelling of each of the ten families normalises to
\* the family's canonical name.
C6_EverySpellingCanonical ==
    (pc \in {"normalised", "renormalised"} /\ inp.kind = "spelling")
        => res.out = inp.family

\* C7: normalising the result of normaliseCategory again returns it unchanged.
C7_Idempotent == (pc = "renormalised") => res.again = res.out

C7_Witness ==
    /\ pc = "renormalised"
    /\ res.out = S_post_transition_metal
    /\ inp.text # res.out
    /\ res.again = res.out

-----------------------------------------------------------------------------
(* Claims about a run (Spec) *)

\* whether the string a tile's colour was parsed from is a table entry
FromTable(t) ==
    \/ t.key \in DOMAIN colours
    \/ prog = "embedded" /\ S_unknown \in DOMAIN colours

UnknownUsable == S_unknown \in DOMAIN colours /\ WellFormedHex(colours[S_unknown])

\* C1: the colour of every tile follows the chain: the colour of the
\* table's entry for the category; without one, the colour of the "unknown"
\* entry; without a usable one, the hardcoded gray.
C1_FallbackChain ==
    \A k \in 1..Len(tiles) :
        LET t == tiles[k]
        IN  /\ (t.key \in DOMAIN colours /\ WellFormedHex(colours[t.key]))
                  => (t.drawn /\ t.c = Denoted(colours[t.key]))
            /\ (t.key \notin DOMAIN colours /\ UnknownUsable)
                  => (t.drawn /\ t.c = Denoted(colours[S_unknown]))
            /\ (t.key \notin DOMAIN colours /\ ~UnknownUsable)
                  => (t.drawn /\ t.c = Gray)

\* C2: a malformed hex string in the table gives the element the gray
\* fallback, its tile is still drawn and the run is not aborted.
C2_MalformedGivesGray ==
    \A k \in 1..Len(tiles) :
        LET t == tiles[k]
        IN  (FromTable(t) /\ ~WellFormedHex(t.hex))
                => (t.drawn /\ t.c = Gray /\ cause # "panic")

\* C3: when the loop has run to its end, every element either had its PNG
\* written or had a failure logged; and a progress line is printed only
\* for an element whose file was created and encoded.
C3_NoSilentDrops ==
    /\ (pc = "done" /\ cause = "end") => \A i \in 1..idx : i \in wrote \/ i \in logged
    /\ \A i \in progress : i \in wrote

UniqueNumbers ==
    \A i, j \in 1..Len(elements) : i # j => elements[i].Number # elements[j].Number

LoopReached == pc = "done" /\ cause \in {"end", "panic", "nilfont"}

\* C4: with the font and the colour table loaded and N element records of
\* distinct numbers, the loop visits all N and the run ends with status 0;
\* N files are written when no save fails, and N - 1 when exactly one does.
C4_BatchComplete ==
    (LoopReached /\ fontOk /\ UniqueNumbers)
        => /\ idx = Len(elements)
           /\ exit = 0
           /\ Cardinality((1..idx) \ wrote) = 0 => Cardinality(files) = Len(elements)
           /\ Cardinality((1..idx) \ wrote) = 1 => Cardinality(files) = Len(elements) - 1

FontFailed ==
    \/ cause = "font"
    \/ prog = "flags" /\ pc \in {"fetch", "mkdir", "loop", "done"} /\ ~fontOk
         /\ cause \notin {"sample", "colours"}

ColoursFailed == cause = "colours"

\* C5: when the font or the colour table cannot be loaded, the run ends
\* with a non-zero status, before any tile is rendered, before the output
\* directory is created and before any file is written.
C5_ConfigFailureFatal ==
    (FontFailed \/ ColoursFailed)
        => /\ pc = "done" /\ exit # 0
           /\ tiles = <<>> /\ ~outdir /\ files = {}

-----------------------------------------------------------------------------
(* Claims about the canvas geometry (SpecGeom) *)

GeometrySet == prog = "flags" /\ pc # "start" /\ cause # "sample"

\* C10 as stated, for the heights of at least one pixel: the tile width is
\* the height times 2456/1882 rounded to the nearest integer, and all tiles
\* of a run share that width and height.
C10_WidthRounded ==
    (GeometrySet /\ height >= 1)
        => /\ tileH = height
           /\ tileW = RoundQuot(height * RatioNum, RatioDen)
           /\ \A k \in 1..Len(tiles) : tiles[k].rect = Rect(tileW, tileH)

\* C10 amended: the tile width is the height times 2456/1882 truncated
\* toward zero, and all tiles of a run are allocated with that same width
\* and height.
C10_WidthTruncated ==
    GeometrySet
        => /\ tileH = height
           /\ tileW = TruncQuot(height * RatioNum, RatioDen)
           /\ \A k \in 1..Len(tiles) : tiles[k].rect = Rect(tileW, tileH)

C10_Witness ==
    /\ prog = "flags" /\ height = 600 /\ tileW = 782
    /\ Len(tiles) >= 2
    /\ tiles[1].rect = tiles[2].rect
    /\ tiles[1].rect.x1 = 782 /\ tiles[1].rect.y1 = 600

\* C11: for every -height the canvas width and height are positive, and
\* the border thickness and the padding of every tile are at most half of
\* the smaller canvas dimension.
C11_CanvasPositive ==
    GeometrySet
        => /\ tileW > 0 /\ tileH > 0
           /\ \A k \in 1..Len(tiles) :
                 /\ 2 * tiles[k].bt <= Min(tileW, tileH)
                 /\ 2 * tiles[k].pad <= Min(tileW, tileH)

-----------------------------------------------------------------------------
(* Claims about the text layout (SpecLayout) *)

\* the tiles whose four texts were drawn
Lettered == {k \in 1..Len(tiles) : Len(tiles[k].texts) = 4}

\* The origins of the claim for a tile on the canvas W x H, with the line
\* heights and text widths in pixels; the quotients are truncated toward
\* zero, as the integer division of Go does.
OriginsAsStated(t, W, H) ==
    LET b     == TruncQuot(H, 15)
        p     == TruncQuot(H, 20)
        numH  == fixedRound(t.m.numH)
        massH == fixedRound(t.m.massH)
        nameH == fixedRound(t.m.nameH)
        massW == fixedRound(t.m.massW)
        symW  == fixedRound(t.m.symW)
        nameW == fixedRound(t.m.nameW)
        num   == t.texts[1]
        mass  == t.texts[2]
        sym   == t.texts[3]
        name  == t.texts[4]
    IN  /\ num.x = fixedI(b + p) /\ num.y = fixedI(b + p + numH)
        /\ mass.x = fixedI(W - b - p - massW) /\ mass.y = fixedI(b + p + massH)
        /\ fixedI(W) - (mass.x + fixedI(massW)) = num.x
        /\ sym.x = fixedI(TruncQuot(W - symW, 2)) /\ sym.y = fixedI(TruncQuot(H, 2))
        /\ name.x = fixedI(TruncQuot(W - nameW, 2))
        /\ name.y = fixedI(TruncQuot(H, 2) + nameH + p)
        /\ (symW = 0) => sym.x = fixedI(TruncQuot(W, 2))
        /\ (symW <= W) => (0 <= sym.x /\ sym.x + fixedI(symW) <= fixedI(W))

\* The fixed points of the embedded program on its 2456 x 1882 canvas.
OriginsEmbedded(t) ==
    LET mid  == fixedI(1228)
        num  == t.texts[1]
        mass == t.texts[2]
        sym  == t.texts[3]
        name == t.texts[4]
    IN  /\ num = [x |-> fixedI(20), y |-> fixedI(50)]
        /\ sym.y = fixedI(971) /\ 2 * (mid - sym.x) \in {t.m.symW, t.m.symW - 1}
        /\ name.y = fixedI(1431) /\ 2 * (mid - name.x) \in {t.m.nameW, t.m.nameW - 1}
        /\ mass.y = fixedI(1676) /\ 2 * (mid - mass.x) \in {t.m.massW, t.m.massW - 1}

\* C12 as stated: on every tile of either program the number, mass, symbol
\* and name are drawn at the origins computed from the canvas, bt = H / 15,
\* pad = H / 20 and the measured widths and line heights.
C12_OriginsEverywhere ==
    \A k \in Lettered : OriginsAsStated(tiles[k], tileW, tileH)

\* C12 amended: the origins of the claim are those of the flag-driven
\* program; the embedded program draws the number at (20, 50) and centres
\* the symbol, the name and the mass on the vertical midline at the heights
\* H/2 + 30, 1431 and 1676.
C12_OriginsByProgram ==
    \A k \in Lettered :
        IF prog = "flags" THEN OriginsAsStated(tiles[k], tileW, tileH)
        ELSE OriginsEmbedded(tiles[k])

C12_Witness ==
    /\ prog = "flags" /\ height = DefaultHeight /\ Lettered # {}
    /\ LET t == tiles[1]
       IN  /\ t.texts[1].x = fixedI(70)
           /\ fixedRound(t.m.massW) = 1 /\ t.texts[2].x = fixedI(711)
           /\ fixedRound(t.m.symW) = 781 /\ t.texts[3] = [x |-> 0, y |-> fixedI(300)]

-----------------------------------------------------------------------------
(* Claims about the fetched element list (Spec) *)

\* fetchElements has returned its list to main
Fetched ==
    /\ prog = "flags" /\ pc \in {"mkdir", "loop", "done"}
    /\ cause \notin {"sample", "colours", "fetch"}

\* how many records of the source document have a number below n, and how
\* many a number of at most n
Below(n) == Cardinality({j \in 1..Len(source) : source[j].Number < n})

UpTo(n) == Cardinality({j \in 1..Len(source) : source[j].Number <= n})

\* C13: the list handed to the loop is strictly ascending by atomic number
\* (no number twice), has at most 118 entries, and its entries are those
\* of the source with the smallest numbers.
C13_StrictlyAscendingCapped ==
    Fetched
        => /\ \A i, j \in 1..Len(elements) :
                 i < j => elements[i].Number < elements[j].Number
           /\ Len(elements) = Min(Len(source), MaxKept)
           /\ \A i \in 1..Len(elements) :
                 Below(elements[i].Number) < i /\ UpTo(elements[i].Number) >= i

-----------------------------------------------------------------------------
(* Claims about the lookup key (Spec) *)

\* the raw source categories of the element of tile k: in flags those of
\* the source records with its number, in embedded the record's own
RawCategories(k) ==
    IF prog = "flags"
    THEN {source[j].Category :
             j \in {n \in 1..Len(source) : source[n].Number = elements[k].Number}}
    ELSE {elements[k].Category}

\* C14: the key under which the colour of a drawn tile was looked up is
\* the normalised form of the element's raw category; with the table
\* {"nonmetal": "#3498db", "unknown": "#e0e0e0"} an element of raw category
\* "diatomic nonmetal" gets the colour (0x34,0x98,0xdb).
C14_KeyIsNormalised ==
    \A k \in {n \in 1..Len(tiles) : tiles[n].drawn} :
        /\ \E raw \in RawCategories(k) : tiles[k].key = normaliseCategory(raw)
        /\ (RawCategories(k) = {S_diatomic_nonmetal} /\ colours = ExampleTable)
              => tiles[k].c = RGBA(52, 152, 219, 255)

-----------------------------------------------------------------------------
(* Claims about the sample image (SpecGeom) *)

=============================================================================
